---- MODULE Spec2Model ----
(***************************************************************************)
(* Model of the stm-embedded-test firmware: the Paused/On state machine    *)
(* of src/state_machine.rs driven by the main loop, the TIM2 handler and   *)
(* the EXTI15_10 handler of src/main.rs.                                   *)
(*                                                                         *)
(* The processor has one thread of execution.  The main loop runs while no *)
(* handler is active; a handler is entered when its interrupt is pending   *)
(* and PRIMASK is clear; both handlers have the same priority, so they do  *)
(* not preempt each other.  The timer and the button are hardware: they    *)
(* act at any time, whatever the processor is doing.                       *)
(***************************************************************************)
EXTENDS Integers, Sequences, FiniteSets, TLC

\* ---------------------------------------------------------------- constants

\* StateMachineImpl = StateMachine<3, ..>
BITS == 3
\* PERIOD, in milliseconds
PERIOD == 500
\* COUNT_DURATION, in milliseconds
COUNT_DURATION == 500
\* cnt, TICK_COUNT, MAX_COUNT and MAX_TICK are u8
U8 == 256

TICK_COUNT == (COUNT_DURATION \div PERIOD) % U8
MAX_COUNT == (2^BITS - 1) % U8
MAX_TICK == ((MAX_COUNT + 1) * TICK_COUNT - 1) % U8

States == {"Paused", "On"}
Lines == 0 .. (BITS - 1)

\* ------------------------------------------------------------------- state

VARIABLES
    state,      \* StateMachine.state
    cnt,        \* StateMachine.cnt
    pins,       \* level of each output line, TRUE = high
    btnLow,     \* level of the button line, TRUE = low (is_low(), "pressed")
    extiPR,     \* edge-pending bit of the button's EXTI line
    timUIF,     \* update-interrupt flag of TIM2
    TIM_FLAG,   \* static TIM_FLAG
    primask,    \* TRUE = interrupts disabled
    mainPc,     \* position of main
    isrPc,      \* position of the active handler, "none" when none is active
    tickBtn,    \* local btn of tick()
    hbiBtn,     \* local btn of handle_btn_interrupt()
    usart,      \* last line written to the serial sink
    call,       \* history: the current or last state machine call
    prev,       \* history: the successful call before it
    scenario,   \* history: position in the release-then-ticks run from boot
    eventReg,   \* the processor's event register, which wfe waits for
    nvic,       \* TRUE = TIM2 and EXTI15_10 are unmasked in the NVIC
    G_SM,       \* static G_SM: "None", "free", or who holds its borrow
    USART,      \* static USART: "None", "free", or who holds its borrow
    panic,      \* the first panic's cause, entries of panic(), PANIC lines
    owed,       \* history: flag stores of TIM2 less tick() calls made
    lateEdge    \* history: an edge was latched after the handler was entered
                \* and before it cleared the pending bit

vars == <<state, cnt, pins, btnLow, extiPR, timUIF, TIM_FLAG, primask, mainPc,
          isrPc, tickBtn, hbiBtn, usart, call, prev, scenario, eventReg, nvic,
          G_SM, USART, panic, owed, lateEdge>>

hw == <<btnLow, extiPR, timUIF>>
sm == <<state, cnt, pins>>
hist == <<call, prev, scenario>>
cpu == <<primask, eventReg, nvic>>
locals == <<tickBtn, hbiBtn>>
cells == <<G_SM, USART>>

\* ------------------------------------------------------- pure state machine

\* bit i of n:  ((n >> i) & 0x01) == 1
Bit(n, i) == (n \div (2^i)) % 2 = 1

\* set_pins with the shift off by one: line i shows bit i + 1
set_pins_shifted(p, n, failAt) ==
    [i \in Lines |-> IF i < failAt THEN Bit(n, i + 1) ELSE p[i]]

\* set_pins(n) where the write of line failAt fails (failAt = BITS: none does):
\* the lines before it are written, the loop stops at the failing one.
set_pins(p, n, failAt) ==
    [i \in Lines |-> IF i < failAt THEN Bit(n, i) ELSE p[i]]

\* actions(): both states display cnt / TICK_COUNT
actions(p, s, c, failAt) ==
    CASE s = "Paused" -> set_pins(p, c \div TICK_COUNT, failAt)
      [] s = "On"     -> set_pins(p, c \div TICK_COUNT, failAt)

\* tick's match with the resume arm counting too
tick_transition_resume_counts(s, c, btn) ==
    CASE s = "Paused" /\ btn -> [state |-> "Paused", cnt |-> c]
      [] s = "On" /\ btn     -> [state |-> "Paused", cnt |-> c]
      [] OTHER                ->
            [state |-> "On",
             cnt |-> IF c = MAX_TICK THEN 0 ELSE (c + 1) % U8]

\* tick's match without the wrap at MAX_TICK
tick_transition_no_wrap(s, c, btn) ==
    CASE s = "Paused" /\ ~btn -> [state |-> "On", cnt |-> c]
      [] s = "Paused" /\ btn  -> [state |-> "Paused", cnt |-> c]
      [] s = "On" /\ btn      -> [state |-> "Paused", cnt |-> c]
      [] s = "On" /\ ~btn     -> [state |-> "On", cnt |-> (c + 1) % U8]

\* tick's match wrapping one tick early
tick_transition_early_wrap(s, c, btn) ==
    CASE s = "Paused" /\ ~btn -> [state |-> "On", cnt |-> c]
      [] s = "Paused" /\ btn  -> [state |-> "Paused", cnt |-> c]
      [] s = "On" /\ btn      -> [state |-> "Paused", cnt |-> c]
      [] s = "On" /\ ~btn     ->
            [state |-> "On",
             cnt |-> IF c + 1 = MAX_TICK THEN 0 ELSE (c + 1) % U8]

\* tick's match with the pausing arm counting too
tick_transition_pause_counts(s, c, btn) ==
    CASE s = "Paused" /\ ~btn -> [state |-> "On", cnt |-> c]
      [] s = "Paused" /\ btn  -> [state |-> "Paused", cnt |-> c]
      [] OTHER                 ->
            [state |-> IF btn THEN "Paused" ELSE "On",
             cnt |-> IF c = MAX_TICK THEN 0 ELSE (c + 1) % U8]

\* the match of tick(): the new state and counter
tick_transition(s, c, btn) ==
    CASE s = "Paused" /\ ~btn -> [state |-> "On", cnt |-> c]
      [] s = "Paused" /\ btn  -> [state |-> "Paused", cnt |-> c]
      [] s = "On" /\ btn      -> [state |-> "Paused", cnt |-> c]
      [] s = "On" /\ ~btn     ->
            [state |-> "On",
             cnt |-> IF c = MAX_TICK THEN 0 ELSE (c + 1) % U8]

\* the handler's rule with a press that only pauses a running machine and
\* resumes a paused one
btn_transition_press_toggles(s, btn) ==
    IF btn THEN CASE s = "Paused" -> "On"
                  [] s = "On"     -> "Paused"
    ELSE CASE s = "Paused" -> "On"
           [] s = "On"     -> s

\* the handler's rule with a release that toggles
btn_transition_release_toggles(s, btn) ==
    IF btn THEN "Paused"
    ELSE CASE s = "Paused" -> "On"
           [] s = "On"     -> "Paused"

\* the if/match of handle_btn_interrupt(): the new state
btn_transition(s, btn) ==
    IF btn THEN "Paused"
    ELSE CASE s = "Paused" -> "On"
           [] s = "On"     -> s

\* a failed button read swallowed
button_result_swallowed(ok) == "run"

\* .map_err(StateMachineError::ButtonError)?  "run": the call goes on
button_result(ok) == IF ok THEN "run" ELSE "ButtonError"

\* .map_err(StateMachineError::PinError)?  "run": the call goes on
actions_result(failAt) == IF failAt < BITS THEN "PinError" ELSE "run"

\* Edge::RisingFalling
trigger_on_edge_both(edge) == TRUE

\* btn.trigger_on_edge(&mut exti, Edge::Falling): which edges set the pending bit
trigger_on_edge(edge) == edge = "Falling"

\* StateMachine::new and the set_low() of each line
NewPins == [i \in Lines |-> FALSE]

\* ----------------------------------------------------------------- history

\* op: the call; readOk, btn: whether the button read succeeded, and its level;
\* failAt: the line whose write failed (BITS: none); pre_*: the fields when the
\* call started; ret: "run" while it runs, then what it returned; lines, clears:
\* the diagnostic lines it wrote and the times it cleared the edge-pending bit
NoCall == [op |-> "none", readOk |-> TRUE, btn |-> FALSE, failAt |-> BITS,
           pre_state |-> "Paused", pre_cnt |-> 0, pre_pins |-> NewPins,
           ret |-> "none", lines |-> 0, clears |-> 0]

Begin(op, ok, btn) ==
    [op |-> op, readOk |-> ok, btn |-> btn, failAt |-> BITS,
     pre_state |-> state, pre_cnt |-> cnt, pre_pins |-> pins,
     ret |-> "run", lines |-> 0, clears |-> 0]

\* the call that ended before the one that starts now
Before == [op |-> call.op, btn |-> call.btn]

ScenarioLen == MAX_TICK + 2

\* the run "boot, a release handled by the handler, then ticks with the button
\* released": 0 at boot, k after the release and k - 1 such ticks, -1 otherwise
ScenarioAfter(op, btn) ==
    IF op = "hbi"
    THEN IF scenario = 0 /\ ~btn THEN 1 ELSE -1
    ELSE IF scenario >= 1 /\ scenario < ScenarioLen /\ ~btn
         THEN scenario + 1 ELSE -1

\* ------------------------------------------------------- cells and panics

\* Mutex<RefCell<Option<..>>>: "None" while empty, "free" while filled and not
\* borrowed, else the context that holds the mutable borrow.
\* borrow_mut() panics on a held cell, .as_mut().unwrap() on an empty one.
borrow_err(cell) ==
    IF cell = "None" THEN "NoneError"
    ELSE IF cell # "free" THEN "BorrowMutError"
    ELSE "none"

NoPanic == [cause |-> "none", entries |-> 0, lines |-> 0]

\* a failed .unwrap(): the panic handler is called; the first cause is kept
Unwrap(cause) == [panic EXCEPT !.cause = IF @ = "none" THEN cause ELSE @]

\* the body of panic() after disable(): where it ends, what it leaves in USART,
\* and whether it wrote its line.  A borrow_mut() of a held USART and a failed
\* writeln!(..).unwrap() panic again, inside the handler.
panic_handler(sinkOk) ==
    IF USART = "None" THEN [pc |-> "halt", USART |-> USART, wrote |-> FALSE]
    ELSE IF USART # "free" THEN [pc |-> "panic", USART |-> USART, wrote |-> FALSE]
    ELSE IF sinkOk THEN [pc |-> "halt", USART |-> "free", wrote |-> TRUE]
    ELSE [pc |-> "panic", USART |-> "panic", wrote |-> FALSE]

\* entries of panic() told apart: 0, 1, and 2 for "more than one"
MaxPanics == 2
\* owed is exact up to MaxOwed and stays there above it
MaxOwed == 2

\* n + 1, or n once it has reached max
More(n, max) == IF n < max THEN n + 1 ELSE n
\* n - 1, or -1 once a tick() was made that no flag store paid for
Less(n) == IF n >= 0 THEN n - 1 ELSE n

\* EXTI15_10 was entered and has not cleared the edge-pending bit
BeforeClear ==
    isrPc \in {"exti_free", "exti_print", "hbi_read", "hbi_trans",
               "hbi_actions", "hbi_clear"}

\* ---------------------------------------------------------------- hardware

\* the timer reaches its period
TimerFire ==
    /\ timUIF' = TRUE
    /\ UNCHANGED <<sm, btnLow, extiPR, TIM_FLAG, cpu, mainPc, isrPc, locals,
                   cells, usart, panic, hist, owed, lateEdge>>

\* the button line falls (the button is pressed)
BtnPress ==
    /\ ~btnLow
    /\ btnLow' = TRUE
    /\ extiPR' = (extiPR \/ trigger_on_edge("Falling"))
    /\ lateEdge' = (lateEdge \/ (trigger_on_edge("Falling") /\ BeforeClear))
    /\ UNCHANGED <<sm, timUIF, TIM_FLAG, cpu, mainPc, isrPc, locals, cells,
                   usart, panic, hist, owed>>

\* the button line rises (the button is released)
BtnRelease ==
    /\ btnLow
    /\ btnLow' = FALSE
    /\ extiPR' = (extiPR \/ trigger_on_edge("Rising"))
    /\ lateEdge' = (lateEdge \/ (trigger_on_edge("Rising") /\ BeforeClear))
    /\ UNCHANGED <<sm, timUIF, TIM_FLAG, cpu, mainPc, isrPc, locals, cells,
                   usart, panic, hist, owed>>

\* --------------------------------------------------------------- main loop

MainRuns == isrPc = "none"

\* interrupt::free(|cs| { G_TIM.set(..); USART.replace(..); G_SM.replace(..) })
MainInstall ==
    /\ MainRuns /\ mainPc = "install"
    /\ G_SM' = "free" /\ USART' = "free"
    /\ mainPc' = "unmask"
    /\ UNCHANGED <<sm, hw, TIM_FLAG, cpu, isrPc, locals, usart, panic, hist,
                   owed, lateEdge>>

\* NVIC::unmask(Interrupt::TIM2); NVIC::unmask(btn_interrupt)
MainUnmask ==
    /\ MainRuns /\ mainPc = "unmask"
    /\ nvic' = TRUE
    /\ mainPc' = "load"
    /\ UNCHANGED <<sm, hw, TIM_FLAG, primask, eventReg, isrPc, locals, cells,
                   usart, panic, hist, owed, lateEdge>>

\* the loop condition inverted: while TIM_FLAG.load(..)
MainLoad_inverted ==
    /\ MainRuns /\ mainPc = "load"
    /\ mainPc' = IF TIM_FLAG THEN "wfe" ELSE "free"
    /\ UNCHANGED <<sm, hw, TIM_FLAG, cpu, isrPc, locals, cells, usart, panic,
                   hist, owed, lateEdge>>

\* while !TIM_FLAG.load(Ordering::Relaxed)
MainLoad ==
    /\ MainRuns /\ mainPc = "load"
    /\ mainPc' = IF TIM_FLAG THEN "free" ELSE "wfe"
    /\ UNCHANGED <<sm, hw, TIM_FLAG, cpu, isrPc, locals, cells, usart, panic,
                   hist, owed, lateEdge>>

\* asm::wfe(): returns once the event register is set, and clears it
MainWfe ==
    /\ MainRuns /\ mainPc = "wfe"
    /\ eventReg
    /\ eventReg' = FALSE
    /\ mainPc' = "load"
    /\ UNCHANGED <<sm, hw, TIM_FLAG, primask, nvic, isrPc, locals, cells, usart,
                   panic, hist, owed, lateEdge>>

\* the closure run without masking interrupts
free_enter_unmasked == primask

\* what interrupt::free does to PRIMASK on entry
free_enter == TRUE

\* cortex_m::interrupt::free(|cs| ..): interrupts off
MainFree ==
    /\ MainRuns /\ mainPc = "free"
    /\ primask' = free_enter
    /\ mainPc' = "clear"
    /\ UNCHANGED <<sm, hw, TIM_FLAG, eventReg, nvic, isrPc, locals, cells, usart,
                   panic, hist, owed, lateEdge>>

\* the store left out
MainClear_forgotten ==
    /\ MainRuns /\ mainPc = "clear"
    /\ mainPc' = "tick_read"
    /\ UNCHANGED <<sm, hw, TIM_FLAG, cpu, isrPc, locals, cells, usart, panic,
                   hist, owed, lateEdge>>

\* TIM_FLAG.store(false, Ordering::Relaxed)
MainClear ==
    /\ MainRuns /\ mainPc = "clear"
    /\ TIM_FLAG' = FALSE
    /\ mainPc' = "tick_read"
    /\ UNCHANGED <<sm, hw, cpu, isrPc, locals, cells, usart, panic, hist, owed,
                   lateEdge>>

\* G_SM.borrow(cs).borrow_mut().as_mut().unwrap().tick(cs), up to
\* tick(): let btn = self.btn.is_low().map_err(ButtonError)?
TickRead ==
    /\ MainRuns /\ mainPc = "tick_read"
    /\ IF borrow_err(G_SM) # "none"
       THEN /\ mainPc' = "panic"
            /\ panic' = Unwrap(borrow_err(G_SM))
            /\ UNCHANGED <<G_SM, tickBtn, call, prev, owed>>
       ELSE \E ok \in BOOLEAN :
              LET r == button_result(ok)
              IN  /\ G_SM' = "main"
                  /\ owed' = Less(owed)
                  /\ tickBtn' = IF ok THEN btnLow ELSE tickBtn
                  /\ call' = [Begin("tick", ok, IF ok THEN btnLow ELSE FALSE)
                                 EXCEPT !.ret = r]
                  /\ prev' = Before
                  /\ mainPc' = IF r = "run" THEN "tick_trans" ELSE "panic"
                  /\ panic' = IF r = "run" THEN panic ELSE Unwrap(r)
    /\ UNCHANGED <<sm, hw, TIM_FLAG, cpu, isrPc, hbiBtn, USART, usart, scenario,
                   lateEdge>>

\* tick(): self.state = match self.state { .. }
TickTransition ==
    /\ MainRuns /\ mainPc = "tick_trans"
    /\ LET t == tick_transition(state, cnt, tickBtn)
       IN  state' = t.state /\ cnt' = t.cnt
    /\ mainPc' = "tick_actions"
    /\ UNCHANGED <<pins, hw, TIM_FLAG, cpu, isrPc, locals, cells, usart, panic,
                   hist, owed, lateEdge>>

\* tick(): self.actions().map_err(PinError)?
TickActions ==
    /\ MainRuns /\ mainPc = "tick_actions"
    /\ \E failAt \in 0 .. BITS :
         LET r == actions_result(failAt)
         IN  /\ pins' = actions(pins, state, cnt, failAt)
             /\ call' = [call EXCEPT !.failAt = failAt, !.ret = r]
             /\ mainPc' = IF r = "run" THEN "tick_log" ELSE "panic"
             /\ panic' = IF r = "run" THEN panic ELSE Unwrap(r)
    /\ UNCHANGED <<state, cnt, hw, TIM_FLAG, cpu, isrPc, locals, cells, usart,
                   prev, scenario, owed, lateEdge>>

\* the line written with the counter and state tick() started with
tick_line_stale ==
    [kind |-> "diag", btn |-> tickBtn, cnt |-> call.pre_cnt,
     state |-> call.pre_state]

\* the line tick() writes
tick_line == [kind |-> "diag", btn |-> tickBtn, cnt |-> cnt, state |-> state]

\* tick(): USART.borrow(cs).borrow_mut(), writeln!(usart, "btn: {:<5} | cnt:
\* {:<2} | state: {:<8}", btn, self.cnt, self.state).unwrap(); Ok(()), and the
\* end of main's statement, which drops the borrow of G_SM
TickLog ==
    /\ MainRuns /\ mainPc = "tick_log"
    /\ IF borrow_err(USART) # "none"
       THEN /\ mainPc' = "panic"
            /\ panic' = Unwrap(borrow_err(USART))
            /\ call' = [call EXCEPT !.ret = "panicked"]
            /\ UNCHANGED <<G_SM, USART, usart, tickBtn, scenario>>
       ELSE \E sinkOk \in BOOLEAN :
              IF sinkOk
              THEN /\ usart' = tick_line
                   /\ call' = [call EXCEPT !.ret = "Ok", !.lines = @ + 1]
                   /\ scenario' = ScenarioAfter("tick", call.btn)
                   /\ G_SM' = "free"
                   /\ tickBtn' = FALSE
                   /\ mainPc' = "unfree"
                   /\ UNCHANGED <<USART, panic>>
              ELSE /\ USART' = "main"
                   /\ call' = [call EXCEPT !.ret = "panicked"]
                   /\ mainPc' = "panic"
                   /\ panic' = Unwrap("SinkError")
                   /\ UNCHANGED <<G_SM, usart, tickBtn, scenario>>
    /\ UNCHANGED <<sm, hw, TIM_FLAG, cpu, isrPc, hbiBtn, prev, owed, lateEdge>>

\* the end of interrupt::free: interrupts on again
MainUnfree ==
    /\ MainRuns /\ mainPc = "unfree"
    /\ primask' = FALSE
    /\ mainPc' = "load"
    /\ UNCHANGED <<sm, hw, TIM_FLAG, eventReg, nvic, isrPc, locals, cells, usart,
                   panic, hist, owed, lateEdge>>

\* what the panic handler does to PRIMASK: cortex_m::interrupt::disable()
panic_disable == TRUE

\* the error of tick() dropped instead of unwrapped
MainPanic_ignored ==
    /\ MainRuns /\ mainPc = "panic"
    /\ mainPc' = "unfree"
    /\ UNCHANGED <<sm, hw, TIM_FLAG, cpu, isrPc, locals, cells, usart, panic,
                   hist, owed, lateEdge>>

\* a failed .unwrap() in main: panic(), which never returns
MainPanic ==
    /\ MainRuns /\ mainPc = "panic"
    /\ \E sinkOk \in BOOLEAN :
         LET h == panic_handler(sinkOk)
         IN  /\ primask' = (primask \/ panic_disable)
             /\ USART' = h.USART
             /\ usart' = IF h.wrote THEN [kind |-> "panic", err |-> panic.cause]
                         ELSE usart
             /\ panic' = [panic EXCEPT !.entries = More(@, MaxPanics),
                                       !.lines = IF h.wrote THEN @ + 1 ELSE @]
             /\ mainPc' = h.pc
    /\ UNCHANGED <<sm, hw, TIM_FLAG, eventReg, nvic, isrPc, locals, G_SM, hist,
                   owed, lateEdge>>

\* ---------------------------------------------------------------- handlers

\* a handler is entered: its interrupt is unmasked, no handler is active and
\* interrupts are enabled
CanEnter == nvic /\ isrPc = "none" /\ ~primask

\* fn TIM2() is entered
Tim2Enter ==
    /\ CanEnter /\ timUIF
    /\ isrPc' = "tim_set"
    /\ eventReg' = TRUE
    /\ UNCHANGED <<sm, hw, TIM_FLAG, primask, nvic, mainPc, locals, cells, usart,
                   panic, hist, owed, lateEdge>>

\* TIM_FLAG.store(true, Ordering::Relaxed)
Tim2Set ==
    /\ isrPc = "tim_set"
    /\ TIM_FLAG' = TRUE
    /\ owed' = More(owed, MaxOwed)
    /\ isrPc' = "tim_ack"
    /\ UNCHANGED <<sm, hw, cpu, mainPc, locals, cells, usart, panic, hist,
                   lateEdge>>

\* let _ = tim.wait(): clears the update flag; the handler returns
Tim2Ack ==
    /\ isrPc = "tim_ack"
    /\ timUIF' = FALSE
    /\ isrPc' = "none"
    /\ eventReg' = TRUE
    /\ UNCHANGED <<sm, btnLow, extiPR, TIM_FLAG, primask, nvic, mainPc, locals,
                   cells, usart, panic, hist, owed, lateEdge>>

\* fn EXTI15_10() is entered
ExtiEnter ==
    /\ CanEnter /\ extiPR
    /\ isrPc' = "exti_free"
    /\ eventReg' = TRUE
    /\ lateEdge' = FALSE
    /\ UNCHANGED <<sm, hw, TIM_FLAG, primask, nvic, mainPc, locals, cells, usart,
                   panic, hist, owed>>

\* cortex_m::interrupt::free(|cs| ..): interrupts off
ExtiFree ==
    /\ isrPc = "exti_free"
    /\ primask' = free_enter
    /\ isrPc' = "exti_print"
    /\ UNCHANGED <<sm, hw, TIM_FLAG, eventReg, nvic, mainPc, locals, cells, usart,
                   panic, hist, owed, lateEdge>>

\* USART.borrow(cs).borrow_mut().as_mut().unwrap()
\*     .write_str("Button pressed!\r\n").unwrap()
ExtiPrint ==
    /\ isrPc = "exti_print"
    /\ IF borrow_err(USART) # "none"
       THEN /\ isrPc' = "panic"
            /\ panic' = Unwrap(borrow_err(USART))
            /\ UNCHANGED <<USART, usart>>
       ELSE \E sinkOk \in BOOLEAN :
              IF sinkOk
              THEN /\ usart' = [kind |-> "button"]
                   /\ isrPc' = "hbi_read"
                   /\ UNCHANGED <<USART, panic>>
              ELSE /\ USART' = "exti"
                   /\ isrPc' = "panic"
                   /\ panic' = Unwrap("SinkError")
                   /\ UNCHANGED usart
    /\ UNCHANGED <<sm, hw, TIM_FLAG, cpu, mainPc, locals, G_SM, hist, owed,
                   lateEdge>>

\* the handler's first step with the pending bit cleared before acting
HbiRead_clears_first ==
    /\ isrPc = "hbi_read"
    /\ \E ok \in BOOLEAN :
         LET r == button_result(ok)
         IN  /\ G_SM' = "exti"
             /\ hbiBtn' = IF ok THEN btnLow ELSE hbiBtn
             /\ call' = [Begin("hbi", ok, IF ok THEN btnLow ELSE FALSE)
                            EXCEPT !.ret = r, !.clears = 1]
             /\ prev' = Before
             /\ isrPc' = IF r = "run" THEN "hbi_trans" ELSE "panic"
             /\ panic' = IF r = "run" THEN panic ELSE Unwrap(r)
    /\ extiPR' = FALSE
    /\ UNCHANGED <<sm, btnLow, timUIF, TIM_FLAG, cpu, mainPc, tickBtn, USART,
                   usart, scenario, owed, lateEdge>>

\* G_SM.borrow(cs).borrow_mut().as_mut().unwrap().handle_btn_interrupt(cs), up
\* to handle_btn_interrupt(): let btn = self.btn.is_low().map_err(ButtonError)?
HbiRead ==
    /\ isrPc = "hbi_read"
    /\ IF borrow_err(G_SM) # "none"
       THEN /\ isrPc' = "panic"
            /\ panic' = Unwrap(borrow_err(G_SM))
            /\ UNCHANGED <<G_SM, hbiBtn, call, prev>>
       ELSE \E ok \in BOOLEAN :
              LET r == button_result(ok)
              IN  /\ G_SM' = "exti"
                  /\ hbiBtn' = IF ok THEN btnLow ELSE hbiBtn
                  /\ call' = [Begin("hbi", ok, IF ok THEN btnLow ELSE FALSE)
                                 EXCEPT !.ret = r]
                  /\ prev' = Before
                  /\ isrPc' = IF r = "run" THEN "hbi_trans" ELSE "panic"
                  /\ panic' = IF r = "run" THEN panic ELSE Unwrap(r)
    /\ UNCHANGED <<sm, hw, TIM_FLAG, cpu, mainPc, tickBtn, USART, usart, scenario,
                   owed, lateEdge>>

\* handle_btn_interrupt(): self.state = if btn { .. } else { .. }
HbiTransition ==
    /\ isrPc = "hbi_trans"
    /\ state' = btn_transition(state, hbiBtn)
    /\ isrPc' = "hbi_actions"
    /\ UNCHANGED <<cnt, pins, hw, TIM_FLAG, cpu, mainPc, locals, cells, usart,
                   panic, hist, owed, lateEdge>>

\* handle_btn_interrupt(): self.actions().map_err(PinError)?
HbiActions ==
    /\ isrPc = "hbi_actions"
    /\ \E failAt \in 0 .. BITS :
         LET r == actions_result(failAt)
         IN  /\ pins' = actions(pins, state, cnt, failAt)
             /\ call' = [call EXCEPT !.failAt = failAt, !.ret = r]
             /\ isrPc' = IF r = "run" THEN "hbi_clear" ELSE "panic"
             /\ panic' = IF r = "run" THEN panic ELSE Unwrap(r)
    /\ UNCHANGED <<state, cnt, hw, TIM_FLAG, cpu, mainPc, locals, cells, usart,
                   prev, scenario, owed, lateEdge>>

\* handle_btn_interrupt(): self.btn.clear_interrupt_pending_bit(); Ok(()), and
\* the end of the handler's statement, which drops the borrow of G_SM
HbiClear ==
    /\ isrPc = "hbi_clear"
    /\ extiPR' = FALSE
    /\ call' = [call EXCEPT !.ret = "Ok", !.clears = @ + 1]
    /\ scenario' = ScenarioAfter("hbi", call.btn)
    /\ G_SM' = "free"
    /\ hbiBtn' = FALSE
    /\ isrPc' = "exti_unfree"
    /\ UNCHANGED <<sm, btnLow, timUIF, TIM_FLAG, cpu, mainPc, tickBtn, USART,
                   usart, panic, prev, owed, lateEdge>>

\* the end of interrupt::free; the handler returns
ExtiUnfree ==
    /\ isrPc = "exti_unfree"
    /\ primask' = FALSE
    /\ eventReg' = TRUE
    /\ isrPc' = "none"
    /\ UNCHANGED <<sm, hw, TIM_FLAG, nvic, mainPc, locals, cells, usart, panic,
                   hist, owed, lateEdge>>

\* a failed .unwrap() in EXTI15_10: panic(), which never returns
ExtiPanic ==
    /\ isrPc = "panic"
    /\ \E sinkOk \in BOOLEAN :
         LET h == panic_handler(sinkOk)
         IN  /\ primask' = (primask \/ panic_disable)
             /\ USART' = h.USART
             /\ usart' = IF h.wrote THEN [kind |-> "panic", err |-> panic.cause]
                         ELSE usart
             /\ panic' = [panic EXCEPT !.entries = More(@, MaxPanics),
                                       !.lines = IF h.wrote THEN @ + 1 ELSE @]
             /\ isrPc' = h.pc
    /\ UNCHANGED <<sm, hw, TIM_FLAG, eventReg, nvic, mainPc, locals, G_SM, hist,
                   owed, lateEdge>>

\* ----------------------------------------------------------- specification

\* main() before it stores the peripherals: lines low, StateMachine::new,
\* timer started, button edge enabled, "Hello, World!" written, the cells
\* empty and both interrupts still masked
Init ==
    /\ state = "Paused"
    /\ cnt = 0
    /\ pins = NewPins
    /\ btnLow \in BOOLEAN
    /\ extiPR = FALSE
    /\ timUIF = FALSE
    /\ TIM_FLAG = FALSE
    /\ primask = FALSE
    /\ eventReg \in BOOLEAN
    /\ nvic = FALSE
    /\ mainPc = "install"
    /\ isrPc = "none"
    /\ tickBtn = FALSE
    /\ hbiBtn = FALSE
    /\ G_SM = "None"
    /\ USART = "None"
    /\ usart = [kind |-> "hello"]
    /\ panic = NoPanic
    /\ call = NoCall
    /\ prev = [op |-> "none", btn |-> FALSE]
    /\ scenario = 0
    /\ owed = 0
    /\ lateEdge = FALSE

MainStep ==
    \/ MainInstall \/ MainUnmask
    \/ MainLoad \/ MainWfe \/ MainFree \/ MainClear
    \/ TickRead \/ TickTransition \/ TickActions \/ TickLog
    \/ MainUnfree \/ MainPanic

HandlerStep ==
    \/ Tim2Enter \/ Tim2Set \/ Tim2Ack
    \/ ExtiEnter \/ ExtiFree \/ ExtiPrint
    \/ HbiRead \/ HbiTransition \/ HbiActions \/ HbiClear
    \/ ExtiUnfree \/ ExtiPanic

Next ==
    \/ TimerFire \/ BtnPress \/ BtnRelease
    \/ MainInstall \/ MainUnmask
    \/ MainLoad \/ MainWfe \/ MainFree \/ MainClear
    \/ TickRead \/ TickTransition \/ TickActions \/ TickLog
    \/ MainUnfree \/ MainPanic
    \/ Tim2Enter \/ Tim2Set \/ Tim2Ack
    \/ ExtiEnter \/ ExtiFree \/ ExtiPrint
    \/ HbiRead \/ HbiTransition \/ HbiActions \/ HbiClear
    \/ ExtiUnfree \/ ExtiPanic

Spec == Init /\ [][Next]_vars

\* the main loop is scheduled fairly although handlers keep interrupting it; a
\* pending handler is entered and an entered handler runs on
LiveSpec == Spec /\ SF_vars(MainStep) /\ WF_vars(HandlerStep)

\* ------------------------------------------------------------- vocabulary

TickRunning == mainPc \in {"tick_read", "tick_trans", "tick_actions", "tick_log"}
HbiRunning == isrPc \in {"hbi_read", "hbi_trans", "hbi_actions", "hbi_clear"}
Halted == mainPc = "halt" \/ isrPc = "halt"
Faulted == call.ret \in {"ButtonError", "PinError"}
\* the call went past its transition
Transitioned == call.ret \in {"Ok", "PinError"}

TypeOK ==
    /\ state \in States
    /\ cnt \in 0 .. (U8 - 1)
    /\ pins \in [Lines -> BOOLEAN]
    /\ btnLow \in BOOLEAN /\ extiPR \in BOOLEAN /\ timUIF \in BOOLEAN
    /\ TIM_FLAG \in BOOLEAN /\ primask \in BOOLEAN
    /\ scenario \in -1 .. ScenarioLen
    /\ eventReg \in BOOLEAN /\ nvic \in BOOLEAN /\ lateEdge \in BOOLEAN
    /\ G_SM \in {"None", "free", "main", "exti"}
    /\ USART \in {"None", "free", "main", "exti", "panic"}
    /\ panic.entries \in 0 .. MaxPanics /\ panic.lines \in 0 .. 1
    /\ owed \in -1 .. MaxOwed

\* ------------------------------------------------------------------ claims

\* C1: a tick() whose button read succeeded leaves (state, cnt) as the two-state
\* table gives it from the state and counter at its start and the level it
\* sampled: Paused+pressed -> Paused, cnt unchanged; Paused+released -> On, cnt
\* unchanged; On+pressed -> Paused, cnt unchanged; On+released -> On, cnt + 1,
\* or 0 when cnt was MAX_TICK.
C1_TickTable ==
    (call.op = "tick" /\ Transitioned) =>
        LET s == call.pre_state
            c == call.pre_cnt
            pressed == call.btn
        IN  /\ (s = "Paused" /\ pressed  => state = "Paused" /\ cnt = c)
            /\ (s = "Paused" /\ ~pressed => state = "On" /\ cnt = c)
            /\ (s = "On" /\ pressed      => state = "Paused" /\ cnt = c)
            /\ (s = "On" /\ ~pressed /\ c < MAX_TICK => state = "On" /\ cnt = c + 1)
            /\ (s = "On" /\ ~pressed /\ c = MAX_TICK => state = "On" /\ cnt = 0)

\* C1 witness: a tick that found a running machine with the button pressed has
\* returned, paused, with the counter it found.
C1_Witness ==
    /\ call.op = "tick" /\ call.ret = "Ok"
    /\ call.pre_state = "On" /\ call.btn /\ call.pre_cnt = 5
    /\ state = "Paused" /\ cnt = 5

\* C2: a handle_btn_interrupt() whose button read succeeded leaves the state
\* Paused when it sampled the button pressed and On when it sampled it
\* released, whatever the state was, and leaves cnt as it found it.
C2_EdgeRule ==
    (call.op = "hbi" /\ Transitioned) =>
        /\ (call.btn => state = "Paused")
        /\ (~call.btn /\ call.pre_state = "Paused" => state = "On")
        /\ (~call.btn /\ call.pre_state = "On" => state = "On")
        /\ cnt = call.pre_cnt

\* C2 witness: the handler found a paused machine with the button pressed and
\* a counter above 0, and has returned.
C2_Witness ==
    /\ call.op = "hbi" /\ call.ret = "Ok"
    /\ call.pre_state = "Paused" /\ call.btn /\ call.pre_cnt = 3
    /\ state = "Paused" /\ cnt = 3

\* C3: cnt is always in 0 .. MAX_TICK, MAX_TICK is 2^BITS * TICK_COUNT - 1, a
\* tick of a running machine with the button released at cnt = MAX_TICK leaves
\* cnt = 0, and the value shown, cnt / TICK_COUNT, is in 0 .. 2^BITS - 1.
C3_CounterBounded ==
    /\ cnt >= 0 /\ cnt <= MAX_TICK
    /\ MAX_TICK = (2^BITS) * TICK_COUNT - 1
    /\ (call.op = "tick" /\ Transitioned /\ call.pre_state = "On" /\ ~call.btn
          /\ call.pre_cnt = MAX_TICK => cnt = 0)
    /\ (cnt \div TICK_COUNT) \in 0 .. (2^BITS - 1)

\* C3 witness: a tick at cnt = MAX_TICK has wrapped the counter to 0.
C3_Witness ==
    /\ call.op = "tick" /\ call.ret = "Ok"
    /\ call.pre_state = "On" /\ ~call.btn /\ call.pre_cnt = MAX_TICK
    /\ cnt = 0

\* C4: at boot the machine is Paused at 0 with every line low; whenever no call
\* was made yet or the last call returned success, line i is bit i of
\* cnt / TICK_COUNT, in both states; and the lines change only in the actions()
\* step of tick() or handle_btn_interrupt().
C4_OutputsShowCounter ==
    /\ (state = "Paused" /\ cnt = 0 /\ \A i \in Lines : ~pins[i])
    /\ [](call.ret \in {"none", "Ok"} =>
            \A i \in Lines : pins[i] = (((cnt \div TICK_COUNT) \div (2^i)) % 2 = 1))
    /\ [][pins' # pins => (mainPc = "tick_actions" \/ isrPc = "hbi_actions")]_vars

\* C4 witness: a successful call has left a paused machine showing 6: line 0
\* low, lines 1 and 2 high.
C4_Witness ==
    /\ call.ret = "Ok" /\ state = "Paused" /\ cnt \div TICK_COUNT = 6
    /\ ~pins[0] /\ pins[1] /\ pins[2]

\* C5: while tick() runs, interrupts are disabled and no handler is active;
\* while handle_btn_interrupt() runs, interrupts are disabled and main is not
\* inside tick().
C5_NeverConcurrent ==
    /\ (TickRunning => primask /\ isrPc = "none")
    /\ (HbiRunning => primask /\ ~TickRunning)

\* C5 witness: tick() is past its transition while both a timer firing and a
\* button edge are pending.
C5_Witness ==
    /\ mainPc = "tick_actions" /\ timUIF /\ extiPR /\ isrPc = "none"

\* C6: when two handle_btn_interrupt() calls follow each other, both succeed
\* and both sample the same level, the second leaves state, cnt and outputs as
\* the first left them; and the handler's rule applied twice to any state with
\* one level gives what it gives applied once.
C6_EdgeIdempotent ==
    /\ (call.op = "hbi" /\ call.ret = "Ok" /\ prev.op = "hbi"
          /\ prev.btn = call.btn
        => state = call.pre_state /\ cnt = call.pre_cnt /\ pins = call.pre_pins)
    /\ \A l \in BOOLEAN :
         btn_transition(btn_transition(state, l), l) = btn_transition(state, l)

\* C6 witness: two handler calls in a row sampled the button released, with the
\* machine running at a counter above 0.
C6_Witness ==
    /\ call.op = "hbi" /\ call.ret = "Ok" /\ prev.op = "hbi"
    /\ ~prev.btn /\ ~call.btn /\ state = "On" /\ cnt = 2

\* C7 as stated: with two ticks per increment, the k-th tick of the run leaves
\* cnt = k (mod 16) and the outputs showing cnt / 2: 000 after the 1st tick,
\* 001 after the 2nd.
C7_AsStated ==
    (call.ret = "Ok" /\ scenario >= 1) =>
        /\ state = "On"
        /\ cnt = (scenario - 1) % 16
        /\ \A i \in Lines : pins[i] = (((cnt \div 2) \div (2^i)) % 2 = 1)

\* C7, amended: TICK_COUNT is 1.  From boot (Paused, cnt 0, outputs 000) a
\* release handled by handle_btn_interrupt() gives On; the 1st following tick
\* with the button released gives cnt 1 and outputs 001, the 2nd cnt 2 and
\* outputs 010, the 7th cnt 7 and outputs 111, and the 8th wraps to cnt 0 and
\* outputs 000.
C7_Run ==
    (call.ret = "Ok" /\ scenario >= 1) =>
        /\ state = "On"
        /\ (scenario = 1 => cnt = 0 /\ ~pins[0] /\ ~pins[1] /\ ~pins[2])
        /\ (scenario = 2 => cnt = 1 /\ pins[0] /\ ~pins[1] /\ ~pins[2])
        /\ (scenario = 3 => cnt = 2 /\ ~pins[0] /\ pins[1] /\ ~pins[2])
        /\ (scenario \in 2 .. 8 => cnt = scenario - 1)
        /\ (scenario = 8 => cnt = 7 /\ pins[0] /\ pins[1] /\ pins[2])
        /\ (scenario = 9 => cnt = 0 /\ ~pins[0] /\ ~pins[1] /\ ~pins[2])

\* C7 witness: the run has gone through all eight ticks and wrapped.
C7_Witness ==
    /\ call.ret = "Ok" /\ scenario = 9 /\ state = "On" /\ cnt = 0

\* C8: a call whose button read failed returned ButtonError, and left state,
\* cnt and every output line as they were, wrote no diagnostic line and did not
\* clear the edge-pending bit; a call whose read succeeded and in which the
\* write of an output line failed returned PinError.
C8_FirstError ==
    /\ (call.op # "none" /\ ~call.readOk =>
          /\ call.ret = "ButtonError"
          /\ state = call.pre_state /\ cnt = call.pre_cnt /\ pins = call.pre_pins
          /\ call.lines = 0 /\ call.clears = 0
          /\ (call.op = "hbi" => extiPR))
    /\ (call.readOk /\ call.failAt < BITS => call.ret = "PinError")
    /\ (call.ret = "ButtonError" => ~call.readOk)
    /\ (call.ret = "PinError" => call.readOk /\ call.failAt < BITS)

\* C8 witness: the button read of a handler call failed while the machine was
\* running at a counter above 0.
C8_Witness ==
    /\ call.op = "hbi" /\ ~call.readOk /\ call.ret = "ButtonError"
    /\ state = "On" /\ cnt = 4 /\ extiPR

\* C9: once tick() or handle_btn_interrupt() has returned an error, interrupts
\* are disabled, the context that made the call is in the panic handler, and
\* no step changes state, cnt, the outputs or TIM_FLAG, starts a call or runs
\* the TIM2 handler: the only step of the processor left is the panic handler
\* running (it reaches its loop, or panics again inside itself).
C9_ErrorIsFinal ==
    /\ [](Faulted => /\ primask
                     /\ (mainPc \in {"panic", "halt"} \/ isrPc \in {"panic", "halt"}))
    /\ [][Faulted =>
            /\ UNCHANGED <<state, cnt, pins, TIM_FLAG, call>>
            /\ primask'
            /\ mainPc' \in {mainPc, "halt"}
            /\ isrPc' \in {isrPc, "halt"}]_vars

\* C9 witness: main has halted after an error of tick(), and a timer firing and
\* a button edge that came after it are pending, unserved.
C9_Witness ==
    /\ mainPc = "halt" /\ call.op = "tick" /\ Faulted
    /\ timUIF /\ extiPR /\ ~TIM_FLAG /\ isrPc = "none"

C11_AsStated ==
    (isrPc = "exti_unfree" /\ lateEdge) => extiPR

\* C12 as stated: the TIM2 handler never stores the flag while main has seen
\* TIM_FLAG set and has not yet cleared it.
C12_AsStated ==
    ~(mainPc \in {"free", "clear"} /\ isrPc = "tim_ack")

\* C13: under fair scheduling, whenever TIM_FLAG is set (a TIM2 handler stored
\* it) a tick() call starts later, unless a fatal error comes first.  TIM_FLAG is
\* never set while main is about to call tick(), so that call starts after the
\* store.
C13_TickServed ==
    /\ [](mainPc = "tick_read" => ~TIM_FLAG)
    /\ (TIM_FLAG ~> (mainPc = "tick_read" \/ panic.cause # "none"))

\* C13 witness: a tick() call has succeeded, the flag was stored again after its
\* clear, and main has cleared it and is about to call tick() again.
C13_Witness ==
    /\ mainPc = "tick_read" /\ call.op = "tick" /\ call.ret = "Ok"
    /\ owed = 1 /\ ~TIM_FLAG /\ timUIF

\* C14: tick() calls made never exceed the flag stores of the TIM2 handler;
\* main leaves its wait only with TIM_FLAG set, and TIM_FLAG is clear from its
\* clear in the critical section until main has left that critical section.
C14_NoDuplicateTick ==
    /\ owed >= 0
    /\ (mainPc \in {"free", "clear"} => TIM_FLAG)
    /\ (mainPc \in {"tick_read", "tick_trans", "tick_actions", "tick_log", "unfree"}
          => ~TIM_FLAG)
    /\ (call.op = "tick" /\ mainPc = "load" /\ isrPc = "none" /\ owed = 0
          => ~TIM_FLAG)

\* C14 witness: two flag stores were served by one tick(), which has succeeded;
\* main is about to leave the critical section with TIM_FLAG clear.
C14_Witness ==
    /\ mainPc = "unfree" /\ call.op = "tick" /\ call.ret = "Ok"
    /\ owed = 1 /\ ~TIM_FLAG

\* C15: a successful handle_btn_interrupt() has cleared the edge-pending bit
\* once; a call that runs, failed or is a tick() has not cleared it; and the
\* bit is cleared only by the handler's last step, after the level was read,
\* the state set from it and every line written, with success returned next.
C15_ClearedOnceLast ==
    /\ [](call.op = "hbi" /\ call.ret = "Ok" => call.clears = 1)
    /\ [](call.ret # "Ok" => call.clears = 0)
    /\ [](call.op = "tick" => call.clears = 0)
    /\ [][extiPR /\ ~extiPR' =>
            /\ isrPc = "hbi_clear" /\ isrPc' = "exti_unfree"
            /\ call.op = "hbi" /\ call.readOk /\ call.failAt = BITS
            /\ state = (IF call.btn THEN "Paused" ELSE "On")
            /\ \A i \in Lines : pins[i] = Bit(cnt \div TICK_COUNT, i)
            /\ call.clears = 0 /\ call'.ret = "Ok"]_vars

\* C15 witness: the handler has paused the machine, cleared the bit and is
\* about to return.
C15_Witness ==
    /\ isrPc = "exti_unfree" /\ call.op = "hbi" /\ call.clears = 1
    /\ ~extiPR /\ state = "Paused" /\ call.pre_state = "On"

\* C16 as stated: whenever no tick() or handle_btn_interrupt() call is in
\* progress, line i is bit i of cnt / TICK_COUNT.
C16_AsStated ==
    (~TickRunning /\ ~HbiRunning) =>
        \A i \in Lines : pins[i] = Bit(cnt \div TICK_COUNT, i)

\* C17 as stated: after any fault the panic handler is entered once and never
\* again, and when the system has halted exactly one PANIC line was written and
\* interrupts are disabled.
C17_AsStated ==
    (panic.cause # "none") =>
        /\ panic.entries <= 1
        /\ (Halted => panic.lines = 1 /\ primask)

\* C18: a successful tick() wrote one diagnostic line, a tick() that did not
\* succeed wrote none, and handle_btn_interrupt() writes none; the line is
\* written by tick()'s last step, after the transition and the outputs, and
\* carries the level the call sampled and the counter and state it leaves.
C18_OneLinePerTick ==
    /\ [](call.op = "tick" /\ call.ret = "Ok" => call.lines = 1)
    /\ [](call.op = "tick" /\ call.ret # "Ok" => call.lines = 0)
    /\ [](call.op = "hbi" => call.lines = 0)
    /\ [][(mainPc = "tick_log" /\ mainPc' = "unfree") =>
            /\ usart' = [kind |-> "diag", btn |-> call.btn, cnt |-> cnt',
                         state |-> state']
            /\ state' = (IF call.btn THEN "Paused" ELSE "On")
            /\ cnt' = (IF call.pre_state = "On" /\ ~call.btn
                       THEN (call.pre_cnt + 1) % (MAX_TICK + 1)
                       ELSE call.pre_cnt)
            /\ \A i \in Lines : pins'[i] = Bit(cnt' \div TICK_COUNT, i)]_vars
    /\ [][(usart' # usart /\ usart'.kind = "diag") =>
            (mainPc = "tick_log" /\ mainPc' = "unfree")]_vars

\* C18 witness: the last line on the sink is the one a tick() wrote after
\* counting from 2 to 3 with the button released.
C18_Witness ==
    /\ call.op = "tick" /\ call.ret = "Ok" /\ call.pre_cnt = 2
    /\ usart = [kind |-> "diag", btn |-> FALSE, cnt |-> 3, state |-> "On"]

\* C19: after every successful call the state is Paused exactly when the call
\* sampled the button pressed; and cnt changes only in the transition of a
\* tick() that sampled the button released and follows a successful call that
\* sampled it released too.
C19_Memoryless ==
    /\ [](call.ret = "Ok" => (state = "Paused" <=> call.btn))
    /\ [][cnt' # cnt =>
            /\ mainPc = "tick_trans" /\ call.op = "tick"
            /\ ~call.btn
            /\ prev.op # "none" /\ ~prev.btn]_vars

\* C19 witness: a tick() that sampled the button released, right after a
\* handler call that sampled it released, has counted.
C19_Witness ==
    /\ call.op = "tick" /\ call.ret = "Ok" /\ ~call.btn
    /\ prev.op = "hbi" /\ ~prev.btn
    /\ cnt = call.pre_cnt + 1

\* C20: no panic is caused by borrowing a held or empty cell; both cells are
\* filled whenever the interrupts are unmasked; and while no fault has
\* happened, a cell is held only by the context that is running.
C20_BorrowsNeverOverlap ==
    /\ panic.cause \notin {"BorrowMutError", "NoneError"}
    /\ (nvic => G_SM # "None" /\ USART # "None")
    /\ (panic.cause = "none" =>
          /\ (G_SM = "main" <=> mainPc \in {"tick_trans", "tick_actions", "tick_log"})
          /\ (G_SM = "exti" <=> isrPc \in {"hbi_trans", "hbi_actions", "hbi_clear"})
          /\ (G_SM = "main" => isrPc = "none")
          /\ USART \in {"None", "free"})

\* C20 witness: main holds the borrow of G_SM inside tick() while a button edge
\* and a timer firing wait for their handlers.
C20_Witness ==
    /\ G_SM = "main" /\ mainPc = "tick_log" /\ panic.cause = "none"
    /\ extiPR /\ timUIF /\ btnLow

====
